---- MODULE Spec2Model ----
(***************************************************************************)
(* Sani: inline markup scanner (Paragraph::new), style-diff renderer       *)
(* (Paragraph::render) and the Format bit-set (formatting.rs).             *)
(*                                                                         *)
(* Text is a sequence of bytes, so the byte offsets of char_indices are    *)
(* 0-based positions in the sequence.  Every character is one byte long    *)
(* except one two-byte character, written as the lead byte "E" followed by *)
(* the continuation byte "e".  Output strings are sequences whose elements *)
(* are either one text byte or one SGR code ("ESC" stands for 0x1B).       *)
(***************************************************************************)
EXTENDS Integers, Sequences, FiniteSets, TLC

(* ------------------------------ bounds -------------------------------- *)
MaxLen == 4
MaxDocLen == 6
MaxPiece == 2
MaxRuns == 3

(* --------------------------- formatting.rs ---------------------------- *)
BOLD == 1
ITALIC == 2
STRIKETHROUGH == 4

FormatFlags == SUBSET {BOLD, ITALIC, STRIKETHROUGH}

FormatNew == {}

difference(a, b) == a \ b

toggle(flags, bit) == IF bit \in flags THEN flags \ {bit} ELSE flags \cup {bit}

toggle_bold_reset(f) == IF BOLD \in f THEN {} ELSE f \cup {BOLD}

toggle_bold(f) == toggle(f, BOLD)

toggle_italic_set(f) == f \cup {ITALIC}

toggle_italic(f) == toggle(f, ITALIC)

toggle_strikethrough(f) == toggle(f, STRIKETHROUGH)

get_start_codes(f) ==
    (IF BOLD \in f THEN <<"ESC[1m">> ELSE <<>>)
    \o (IF ITALIC \in f THEN <<"ESC[3m">> ELSE <<>>)
    \o (IF STRIKETHROUGH \in f THEN <<"ESC[9m">> ELSE <<>>)

get_end_codes(f) ==
    (IF BOLD \in f THEN <<"ESC[22m">> ELSE <<>>)
    \o (IF ITALIC \in f THEN <<"ESC[23m">> ELSE <<>>)
    \o (IF STRIKETHROUGH \in f THEN <<"ESC[29m">> ELSE <<>>)

get_codes_start_first(self, previous_format) ==
    get_start_codes(difference(self, previous_format))
    \o get_end_codes(difference(previous_format, self))

get_codes_full_restyle(self, previous_format) ==
    get_end_codes(previous_format) \o get_start_codes(self)

get_codes_only_start(self, previous_format) ==
    get_start_codes(difference(self, previous_format))

get_codes_reemit(self, previous_format) ==
    get_end_codes(difference(previous_format, self)) \o get_start_codes(self)

get_codes_for_format_change(self, previous_format) ==
    LET new_format_flags == difference(self, previous_format)
        discontinued_format_flags == difference(previous_format, self)
    IN  get_end_codes(discontinued_format_flags) \o get_start_codes(new_format_flags)

(* ------------------------ markdown.rs: scanner ------------------------ *)
Chars == {"\\", "\n", "*", "~", "a", "b"}

Ordinary == {"a", "b"}

Markup == {"\\", "\n", "*", "~"}

LeadByte == "E"

ContByte == "e"

CharAt(t, i) == t[i + 1]

\* char::len_utf8 of the character that starts at offset i
Width(t, i) == IF CharAt(t, i) = LeadByte THEN 2 ELSE 1

\* str::is_char_boundary
IsCharBoundary(t, i) ==
    i = 0 \/ i = Len(t) \/ (0 < i /\ i < Len(t) /\ CharAt(t, i) # ContByte)

\* text[a..b] with 0-based byte offsets, and the condition under which Rust
\* does not panic on it
Slice(t, a, b) == SubSeq(t, a + 1, b)

SliceOk(t, a, b) ==
    a <= b /\ b <= Len(t) /\ IsCharBoundary(t, a) /\ IsCharBoundary(t, b)

ScanInit ==
    [char_indices |-> 0, current_slice_start |-> 0, current_format |-> FormatNew,
     render_slices |-> <<>>, panicked |-> FALSE]

\* render_slices.push((text[from..to] + suffix, current_format)), or a panic
Push(t, s, to, suffix) ==
    IF SliceOk(t, s.current_slice_start, to)
    THEN [s EXCEPT !.render_slices =
            Append(@, <<Slice(t, s.current_slice_start, to) \o suffix, s.current_format>>)]
    ELSE [s EXCEPT !.panicked = TRUE]

\* In every arm s.char_indices is the offset of the character just yielded by
\* the `while let`, so the iterator itself stands at s.char_indices + 1.
BackslashArm_past_end(t, s) ==
    LET char_index == s.char_indices
        has_next == char_index + 1 < Len(t)
        next_char_index == IF has_next THEN char_index + 1 ELSE char_index + 2
        p == Push(t, s, char_index, <<>>)
    IN  IF p.panicked THEN p
        ELSE [p EXCEPT !.current_slice_start = next_char_index,
                       !.char_indices = IF has_next THEN char_index + 1 + Width(t, char_index + 1)
                                        ELSE char_index + 1]

BackslashArm(t, s) ==
    LET char_index == s.char_indices
        has_next == char_index + 1 < Len(t)
        \* char_indices.next().unwrap_or((char_index + 1, '\\'))
        next_char_index == IF has_next THEN char_index + 1 ELSE char_index + 1
        p == Push(t, s, char_index, <<>>)
    IN  IF p.panicked THEN p
        ELSE [p EXCEPT !.current_slice_start = next_char_index,
                       !.char_indices = IF has_next THEN char_index + 1 + Width(t, char_index + 1)
                                        ELSE char_index + 1]

NewlineArm(t, s) ==
    LET char_index == s.char_indices
        p == Push(t, s, char_index, <<" ">>)
    IN  IF p.panicked THEN p
        ELSE [p EXCEPT !.current_slice_start = char_index + 1,
                       !.char_indices = char_index + 1]

AsteriskArm_skip_next(t, s) ==
    LET char_index == s.char_indices
        has_next == char_index + 1 < Len(t)
        next_char_index == char_index + 1
        p == Push(t, s, char_index, <<>>)
        after == IF has_next THEN char_index + 1 + Width(t, char_index + 1) ELSE char_index + 1
    IN  IF p.panicked THEN p
        ELSE IF has_next /\ CharAt(t, next_char_index) = "*"
        THEN [p EXCEPT !.current_slice_start = next_char_index + 1,
                       !.current_format = toggle_bold(@),
                       !.char_indices = after]
        ELSE [p EXCEPT !.current_slice_start = after,
                       !.current_format = toggle_italic(@),
                       !.char_indices = after]

AsteriskArm(t, s) ==
    LET char_index == s.char_indices
        has_next == char_index + 1 < Len(t)
        next_char_index == char_index + 1
        p == Push(t, s, char_index, <<>>)
        after == IF has_next THEN char_index + 1 + Width(t, char_index + 1) ELSE char_index + 1
    IN  IF p.panicked THEN p
        ELSE IF has_next /\ CharAt(t, next_char_index) = "*"
        THEN [p EXCEPT !.current_slice_start = next_char_index + 1,
                       !.current_format = toggle_bold(@),
                       !.char_indices = after]
        ELSE [p EXCEPT !.current_slice_start = char_index + 1,
                       !.current_format = toggle_italic(@),
                       !.char_indices = after]

TildeArm(t, s) ==
    LET char_index == s.char_indices
        has_next == char_index + 1 < Len(t)
        next_char_index == char_index + 1
        after == IF has_next THEN char_index + 1 + Width(t, char_index + 1) ELSE char_index + 1
    IN  IF has_next /\ CharAt(t, next_char_index) = "~"
        THEN LET p == Push(t, s, char_index, <<>>)
             IN  IF p.panicked THEN p
                 ELSE [p EXCEPT !.current_slice_start = next_char_index + 1,
                                !.current_format = toggle_strikethrough(@),
                                !.char_indices = after]
        ELSE [s EXCEPT !.char_indices = after]

OtherArm(t, s) == [s EXCEPT !.char_indices = s.char_indices + Width(t, s.char_indices)]

keep_all(slices) == slices

\* render_slices.retain(|elem| !elem.0.is_empty())
retain(slices) == SelectSeq(slices, LAMBDA elem : elem[1] # <<>>)

\* the code after the loop: the final push, then the retain
FinishArm(t, s) ==
    LET p == IF s.current_slice_start # Len(t)
             THEN IF SliceOk(t, s.current_slice_start, Len(t))
                  THEN [s EXCEPT !.render_slices =
                          Append(@, <<Slice(t, s.current_slice_start, Len(t)), s.current_format>>)]
                  ELSE [s EXCEPT !.panicked = TRUE]
             ELSE s
    IN  IF p.panicked THEN p ELSE [p EXCEPT !.render_slices = retain(@)]

ScanIteration(t, s) ==
    LET c == CharAt(t, s.char_indices)
    IN  CASE c = "\\" -> BackslashArm(t, s)
          [] c = "\n" -> NewlineArm(t, s)
          [] c = "*" -> AsteriskArm(t, s)
          [] c = "~" -> TildeArm(t, s)
          [] OTHER -> OtherArm(t, s)

RECURSIVE ScanLoop(_, _)
ScanLoop(t, s) ==
    IF s.panicked \/ s.char_indices >= Len(t) THEN s
    ELSE ScanLoop(t, ScanIteration(t, s))

\* Paragraph::new as a function of the text: the render_slices of the result
ParagraphNew(t) == FinishArm(t, ScanLoop(t, ScanInit)).render_slices

(* ------------------- markdown.rs: render as a function ---------------- *)
RECURSIVE RenderRuns_no_close(_, _)
RenderRuns_no_close(runs, previous) ==
    IF runs = <<>> THEN <<>>
    ELSE get_codes_for_format_change(Head(runs)[2], previous) \o Head(runs)[1]
         \o RenderRuns_no_close(Tail(runs), Head(runs)[2])

RenderParagraph_no_close(runs) == RenderRuns_no_close(runs, FormatNew)

\* the loop of Paragraph::render from a given previous_format, then the close
RECURSIVE RenderRuns(_, _)
RenderRuns(runs, previous) ==
    IF runs = <<>> THEN get_codes_for_format_change(FormatNew, previous)
    ELSE get_codes_for_format_change(Head(runs)[2], previous) \o Head(runs)[1]
         \o RenderRuns(Tail(runs), Head(runs)[2])

\* Paragraph::render as a function of render_slices
RenderParagraph(runs) == RenderRuns(runs, FormatNew)

(* ------------------------------- lib.rs ------------------------------- *)
\* text.split("\n\n"): the segments between the non-overlapping blank lines
\* found left to right; `start` and `i` are 1-based positions
RECURSIVE SplitFrom(_, _, _)
SplitFrom(t, start, i) ==
    IF i > Len(t) THEN <<SubSeq(t, start, Len(t))>>
    ELSE IF i < Len(t) /\ t[i] = "\n" /\ t[i + 1] = "\n"
    THEN <<SubSeq(t, start, i - 1)>> \o SplitFrom(t, i + 2, i + 2)
    ELSE SplitFrom(t, start, i + 1)

Split(t) == SplitFrom(t, 1, 1)

(* ------------------------------- inputs ------------------------------- *)
DocChars == {"*", "~", "\n", "a"}

DocTexts == UNION {[1..n -> DocChars] : n \in 0..MaxDocLen}

\* valid UTF-8: a lead byte is followed by its continuation byte, and a
\* continuation byte follows a lead byte
WellFormed(t) ==
    \A i \in 1..Len(t) :
        /\ t[i] = LeadByte => (i < Len(t) /\ t[i + 1] = ContByte)
        /\ t[i] = ContByte => (i > 1 /\ t[i - 1] = LeadByte)

Texts == {t \in UNION {[1..n -> Chars \cup {LeadByte, ContByte}] : n \in 0..MaxLen} : WellFormed(t)}

Pieces == UNION {[1..n -> Ordinary] : n \in 1..MaxPiece}

Delimiter(attr) ==
    CASE attr = BOLD -> <<"*", "*">>
      [] attr = ITALIC -> <<"*">>
      [] attr = STRIKETHROUGH -> <<"~", "~">>

\* open-X t1 open-Y t2 close-X t3 close-Y
OverlapText(x, y, t1, t2, t3) ==
    Delimiter(x) \o t1 \o Delimiter(y) \o t2 \o Delimiter(x) \o t3 \o Delimiter(y)

\* open-X t1 open-Y t2 close-Y t3 close-X
NestedText(x, y, t1, t2, t3) ==
    Delimiter(x) \o t1 \o Delimiter(y) \o t2 \o Delimiter(y) \o t3 \o Delimiter(x)

Attrs == {BOLD, ITALIC, STRIKETHROUGH}

AttrPairs == {xy \in Attrs \X Attrs : xy[1] # xy[2]}

TwoFormatTexts ==
    {OverlapText(xy[1], xy[2], t1, t2, t3) : xy \in AttrPairs, t1 \in Pieces, t2 \in Pieces, t3 \in Pieces}
    \cup {NestedText(xy[1], xy[2], t1, t2, t3) : xy \in AttrPairs, t1 \in Pieces, t2 \in Pieces, t3 \in Pieces}

RunTexts == {<<>>, <<"a">>, <<"b", "a">>}

RunLists == UNION {[1..n -> RunTexts \X FormatFlags] : n \in 0..MaxRuns}

(* ------------------------------- state -------------------------------- *)
VARIABLES text, char_indices, current_slice_start, current_format, render_slices,
          render, previous_format, slice_idx, fmt_self, fmt_previous, codes,
          segments, elements, element_idx, output, pc

vars == <<text, char_indices, current_slice_start, current_format, render_slices,
          render, previous_format, slice_idx, fmt_self, fmt_previous, codes,
          segments, elements, element_idx, output, pc>>

docVars == <<segments, elements, element_idx, output>>

scanVars == <<char_indices, current_slice_start, current_format, render_slices>>

renderVars == <<render, previous_format, slice_idx>>

formatVars == <<fmt_self, fmt_previous, codes>>

ScanState ==
    [char_indices |-> char_indices, current_slice_start |-> current_slice_start,
     current_format |-> current_format, render_slices |-> render_slices,
     panicked |-> FALSE]

SetScan(n, nextpc) ==
    /\ char_indices' = n.char_indices
    /\ current_slice_start' = n.current_slice_start
    /\ current_format' = n.current_format
    /\ render_slices' = n.render_slices
    /\ pc' = IF n.panicked THEN "panicked" ELSE nextpc
    /\ UNCHANGED <<text, docVars, renderVars, formatVars>>

DocIdle ==
    /\ segments = <<>> /\ elements = <<>> /\ element_idx = 1 /\ output = <<>>

Idle ==
    /\ render = <<>> /\ previous_format = FormatNew /\ slice_idx = 1
    /\ fmt_self = FormatNew /\ fmt_previous = FormatNew /\ codes = <<>>

\* Paragraph::new(text) entered: lines 14-19
Init ==
    /\ text \in Texts \cup TwoFormatTexts
    /\ char_indices = 0
    /\ current_slice_start = 0
    /\ current_format = FormatNew
    /\ render_slices = <<>>
    /\ pc = "scan"
    /\ Idle
    /\ DocIdle

AtChar(c) == pc = "scan" /\ char_indices < Len(text) /\ CharAt(text, char_indices) = c

Backslash == AtChar("\\") /\ SetScan(BackslashArm(text, ScanState), "scan")

Newline == AtChar("\n") /\ SetScan(NewlineArm(text, ScanState), "scan")

Asterisk == AtChar("*") /\ SetScan(AsteriskArm(text, ScanState), "scan")

Tilde == AtChar("~") /\ SetScan(TildeArm(text, ScanState), "scan")

OtherChar ==
    /\ pc = "scan" /\ char_indices < Len(text)
    /\ CharAt(text, char_indices) \notin Markup
    /\ SetScan(OtherArm(text, ScanState), "scan")

FinishScan ==
    /\ pc = "scan" /\ char_indices >= Len(text)
    /\ SetScan(FinishArm(text, ScanState), "parsed")

(* ----------------------- markdown.rs: renderer ------------------------ *)
RenderBegin ==
    /\ pc = "parsed"
    /\ render' = <<>>
    /\ previous_format' = FormatNew
    /\ slice_idx' = 1
    /\ pc' = "render"
    /\ UNCHANGED <<text, docVars, scanVars, formatVars>>

RenderSlice_stale_previous ==
    /\ pc = "render" /\ slice_idx <= Len(render_slices)
    /\ LET slice == render_slices[slice_idx][1]
           format == render_slices[slice_idx][2]
       IN  /\ render' = render \o get_codes_for_format_change(format, previous_format) \o slice
           /\ previous_format' = previous_format
    /\ slice_idx' = slice_idx + 1
    /\ UNCHANGED <<text, docVars, scanVars, formatVars, pc>>

RenderSlice ==
    /\ pc = "render" /\ slice_idx <= Len(render_slices)
    /\ LET slice == render_slices[slice_idx][1]
           format == render_slices[slice_idx][2]
       IN  /\ render' = render \o get_codes_for_format_change(format, previous_format) \o slice
           /\ previous_format' = format
    /\ slice_idx' = slice_idx + 1
    /\ UNCHANGED <<text, docVars, scanVars, formatVars, pc>>

RenderClose_no_close ==
    /\ pc = "render" /\ slice_idx > Len(render_slices)
    /\ render' = render
    /\ pc' = "rendered"
    /\ UNCHANGED <<text, docVars, scanVars, previous_format, slice_idx, formatVars>>

RenderClose ==
    /\ pc = "render" /\ slice_idx > Len(render_slices)
    /\ render' = render \o get_codes_for_format_change(FormatNew, previous_format)
    /\ pc' = "rendered"
    /\ UNCHANGED <<text, docVars, scanVars, previous_format, slice_idx, formatVars>>

Next ==
    \/ Backslash
    \/ Newline
    \/ Asterisk
    \/ Tilde
    \/ OtherChar
    \/ FinishScan
    \/ RenderBegin
    \/ RenderSlice
    \/ RenderClose

Spec == Init /\ [][Next]_vars

(* a Paragraph built directly from a run list, as the rendering tests do *)
InitRender ==
    /\ text = <<>>
    /\ char_indices = 0
    /\ current_slice_start = 0
    /\ current_format = FormatNew
    /\ render_slices \in RunLists
    /\ pc = "parsed"
    /\ Idle
    /\ DocIdle

NextRender ==
    \/ RenderBegin
    \/ RenderSlice
    \/ RenderClose

SpecRender == InitRender /\ [][NextRender]_vars

(* a whole document: parse, then render (lib.rs) *)
InitDocument ==
    /\ text \in DocTexts
    /\ char_indices = 0
    /\ current_slice_start = 0
    /\ current_format = FormatNew
    /\ render_slices = <<>>
    /\ Idle
    /\ segments = Split(text)
    /\ elements = <<>>
    /\ element_idx = 1
    /\ output = <<>>
    /\ pc = "parse"

ParseParagraph ==
    /\ pc = "parse" /\ segments # <<>>
    /\ elements' = Append(elements, ParagraphNew(Head(segments)))
    /\ segments' = Tail(segments)
    /\ UNCHANGED <<text, scanVars, renderVars, formatVars, element_idx, output, pc>>

ParseReturn ==
    /\ pc = "parse" /\ segments = <<>>
    /\ pc' = "doc_parsed"
    /\ UNCHANGED <<text, scanVars, renderVars, formatVars, docVars>>

DocRenderBegin ==
    /\ pc = "doc_parsed"
    /\ output' = <<>>
    /\ element_idx' = 1
    /\ pc' = "doc_render"
    /\ UNCHANGED <<text, scanVars, renderVars, formatVars, segments, elements>>

DocRenderElement ==
    /\ pc = "doc_render" /\ element_idx <= Len(elements)
    /\ output' = output \o RenderParagraph(elements[element_idx]) \o <<"\n", "\n">>
    /\ element_idx' = element_idx + 1
    /\ UNCHANGED <<text, scanVars, renderVars, formatVars, segments, elements, pc>>

DocRenderReturn ==
    /\ pc = "doc_render" /\ element_idx > Len(elements)
    /\ pc' = "doc_rendered"
    /\ UNCHANGED <<text, scanVars, renderVars, formatVars, docVars>>

NextDocument ==
    \/ ParseParagraph
    \/ ParseReturn
    \/ DocRenderBegin
    \/ DocRenderElement
    \/ DocRenderReturn

SpecDocument == InitDocument /\ [][NextDocument]_vars

(* the Format value type on its own *)
InitFormat ==
    /\ text = <<>>
    /\ char_indices = 0
    /\ current_slice_start = 0
    /\ current_format = FormatNew
    /\ render_slices = <<>>
    /\ render = <<>> /\ previous_format = FormatNew /\ slice_idx = 1
    /\ fmt_self = FormatNew
    /\ fmt_previous \in FormatFlags
    /\ codes = <<>>
    /\ DocIdle
    /\ pc = "format"

ToggleOn(f) ==
    /\ pc = "format"
    /\ fmt_self' = f
    /\ UNCHANGED <<text, docVars, scanVars, renderVars, fmt_previous, codes, pc>>

ToggleBold == ToggleOn(toggle_bold(fmt_self))

ToggleItalic == ToggleOn(toggle_italic(fmt_self))

ToggleStrikethrough == ToggleOn(toggle_strikethrough(fmt_self))

GetCodesForFormatChange ==
    /\ pc = "format"
    /\ codes' = get_codes_for_format_change(fmt_self, fmt_previous)
    /\ pc' = "codes"
    /\ UNCHANGED <<text, docVars, scanVars, renderVars, fmt_self, fmt_previous>>

NextFormat ==
    \/ ToggleBold
    \/ ToggleItalic
    \/ ToggleStrikethrough
    \/ GetCodesForFormatChange

SpecFormat == InitFormat /\ [][NextFormat]_vars

(* the Format value type together with its use by the renderer *)
InitFormatRender == InitFormat \/ InitRender

NextFormatRender == NextFormat \/ NextRender

SpecFormatRender == InitFormatRender /\ [][NextFormatRender]_vars

(* ====================== properties of the renderer ==================== *)
StartCode(attr) ==
    CASE attr = BOLD -> "ESC[1m" [] attr = ITALIC -> "ESC[3m" [] attr = STRIKETHROUGH -> "ESC[9m"

EndCode(attr) ==
    CASE attr = BOLD -> "ESC[22m" [] attr = ITALIC -> "ESC[23m" [] attr = STRIKETHROUGH -> "ESC[29m"

AttrOrder == <<BOLD, ITALIC, STRIKETHROUGH>>

\* the effect of one output element on the terminal's active style
ApplyElement(active, e) ==
    IF \E a \in Attrs : e = StartCode(a)
    THEN active \cup {a \in Attrs : e = StartCode(a)}
    ELSE active \ {a \in Attrs : e = EndCode(a)}

RECURSIVE Replay(_, _)
Replay(out, active) ==
    IF out = <<>> THEN active
    ELSE Replay(Tail(out), ApplyElement(active, Head(out)))

\* C1: replaying the start/end codes of the rendered output from the empty
\* style ends in the empty style, for every run list.
C1_OutputClosesEveryStyle ==
    pc = "rendered" => Replay(render, {}) = {}

C1_Witness ==
    /\ pc = "rendered"
    /\ Len(render_slices) > 0
    /\ render_slices[Len(render_slices)][2] # {}
    /\ \E a \in Attrs : \E i \in 1..Len(render) : render[i] = StartCode(a)

\* the codes the transition previous -> current is said to consist of
CodesOf(set, code(_)) ==
    LET picked == SelectSeq(AttrOrder, LAMBDA a : a \in set)
    IN  [i \in 1..Len(picked) |-> code(picked[i])]

TransitionCodes(previous, current) ==
    CodesOf({a \in Attrs : a \in previous /\ a \notin current}, EndCode)
    \o CodesOf({a \in Attrs : a \in current /\ a \notin previous}, StartCode)

\* C2: get_codes_for_format_change on current with argument previous is the
\* end codes of previous-but-not-current in the order bold, italic,
\* strikethrough, then the start codes of current-but-not-previous in that
\* order, and nothing for an attribute in both or in neither.
C2_FormatChangeCodes ==
    pc = "codes" => codes = TransitionCodes(fmt_previous, fmt_self)

C2_Witness ==
    /\ pc = "codes"
    /\ fmt_previous \ fmt_self # {}
    /\ fmt_self \ fmt_previous # {}
    /\ fmt_self \cap fmt_previous # {}
    /\ Len(codes) = 2

StyleBefore(runs, i) == IF i = 1 THEN {} ELSE runs[i - 1][2]

RECURSIVE Walk(_, _)
Walk(runs, n) ==
    IF n = 0 THEN <<>>
    ELSE Walk(runs, n - 1)
         \o TransitionCodes(StyleBefore(runs, n), runs[n][2])
         \o runs[n][1]

\* C3: render walks the runs in order from the empty style, emitting for
\* each run the transition from the previous run's style followed by the
\* run's text, then one closing transition to the empty style; the empty
\* run list renders to the empty string.
C3_RenderWalksRuns ==
    /\ pc = "render" =>
          /\ render = Walk(render_slices, slice_idx - 1)
          /\ previous_format = StyleBefore(render_slices, slice_idx)
    /\ pc = "rendered" =>
          /\ render = Walk(render_slices, Len(render_slices))
                      \o TransitionCodes(StyleBefore(render_slices, Len(render_slices) + 1), {})
          /\ (render_slices = <<>> => render = <<>>)

C3_Witness ==
    /\ pc = "rendered"
    /\ Len(render_slices) >= 2
    /\ render_slices[1][2] # render_slices[2][2]
    /\ render_slices[2][2] # {}
    /\ render_slices[1][1] # <<>>

(* ====================== properties of the scanner ===================== *)
Parsed == pc \in {"parsed", "render", "rendered"}

\* C4: no run produced by Paragraph::new has an empty text, whatever the
\* input.
C4_NoEmptyRun ==
    Parsed => \A i \in 1..Len(render_slices) : render_slices[i][1] # <<>>

C4_Witness ==
    /\ pc = "parsed"
    /\ Len(text) >= 2
    /\ \A i \in 1..Len(text) : text[i] \in {"*", "~", "\\"}
    /\ render_slices = <<>>

IsPiece(t) == Len(t) >= 1 /\ \A i \in 1..Len(t) : t[i] \in Ordinary

\* the text cut as  D(x) t1 D(y) t2 D(..) t3 D(..)  with pieces of the given lengths
CutLen(x, y, n1, n2, n3) == 2 * Len(Delimiter(x)) + 2 * Len(Delimiter(y)) + n1 + n2 + n3

Cut(x, y, n1, n2, n3) ==
    LET dx == Len(Delimiter(x))
        dy == Len(Delimiter(y))
        s1 == dx
        s2 == s1 + n1 + dy
    IN  [t1 |-> SubSeq(text, s1 + 1, s1 + n1),
         t2 |-> SubSeq(text, s2 + 1, s2 + n2),
         t3_overlap |-> SubSeq(text, s2 + n2 + dx + 1, s2 + n2 + dx + n3),
         t3_nested |-> SubSeq(text, s2 + n2 + dy + 1, s2 + n2 + dy + n3)]

\* C5: styles are independent flags: open-X, open-Y, close-X, close-Y around
\* ordinary text scans to runs styled X, X+Y, Y, and open-X, open-Y,
\* close-Y, close-X scans to runs styled X, X+Y, X.
C5_IndependentFlags ==
    pc = "parsed" =>
        \A xy \in AttrPairs : \A n1 \in 1..MaxPiece, n2 \in 1..MaxPiece, n3 \in 1..MaxPiece :
            Len(text) = CutLen(xy[1], xy[2], n1, n2, n3) =>
            LET x == xy[1]
                y == xy[2]
                c == Cut(x, y, n1, n2, n3)
            IN  /\ (IsPiece(c.t1) /\ IsPiece(c.t2) /\ IsPiece(c.t3_overlap)
                    /\ text = OverlapText(x, y, c.t1, c.t2, c.t3_overlap))
                   => render_slices = << <<c.t1, {x}>>, <<c.t2, {x, y}>>, <<c.t3_overlap, {y}>> >>
                /\ (IsPiece(c.t1) /\ IsPiece(c.t2) /\ IsPiece(c.t3_nested)
                    /\ text = NestedText(x, y, c.t1, c.t2, c.t3_nested))
                   => render_slices = << <<c.t1, {x}>>, <<c.t2, {x, y}>>, <<c.t3_nested, {x}>> >>

C5_Witness ==
    /\ pc = "parsed"
    /\ text = OverlapText(BOLD, STRIKETHROUGH, <<"a">>, <<"b">>, <<"a", "b">>)
    /\ render_slices = << <<(<<"a">>), {BOLD}>>, <<(<<"b">>), {BOLD, STRIKETHROUGH}>>,
                          <<(<<"a", "b">>), {STRIKETHROUGH}>> >>

(* ------------------ the per-character rules, as stated ---------------- *)
AtCursor(c) == pc = "scan" /\ char_indices < Len(text) /\ CharAt(text, char_indices) = c

NextIs(c) == char_indices + 1 < Len(text) /\ CharAt(text, char_indices + 1) = c

Pending == <<Slice(text, current_slice_start, char_indices), current_format>>

\* C6: on an asterisk the pending slice is flushed; a following asterisk is
\* consumed with it and bold toggles; otherwise only the one asterisk is
\* consumed and italic toggles, so the scan resumes at the character right
\* after the single asterisk.
C6_AsteriskRule ==
    [][AtCursor("*") =>
          /\ render_slices' = Append(render_slices, Pending)
          /\ IF NextIs("*")
             THEN /\ char_indices' = char_indices + 2
                  /\ current_slice_start' = char_indices + 2
                  /\ current_format' = toggle(current_format, BOLD)
             ELSE /\ char_indices' = char_indices + 1
                  /\ current_slice_start' = char_indices + 1
                  /\ current_format' = toggle(current_format, ITALIC)]_vars

\* C7: a lone tilde flushes nothing, leaves the style and the pending text
\* alone, and advances the scan by exactly one character.
C7_LoneTildeRule ==
    [][(AtCursor("~") /\ ~NextIs("~")) =>
          /\ char_indices' = char_indices + 1
          /\ UNCHANGED <<render_slices, current_format, current_slice_start>>]_vars

(* ---------------------- escapes, read off the text -------------------- *)
\* the number of consecutive backslashes that end at position i (1-based)
RECURSIVE BackslashesEndingAt(_, _)
BackslashesEndingAt(t, i) ==
    IF i < 1 \/ t[i] # "\\" THEN 0 ELSE 1 + BackslashesEndingAt(t, i - 1)

\* position i holds the character escaped by a backslash
Escaped(t, i) == BackslashesEndingAt(t, i - 1) % 2 = 1

RECURSIVE Flat(_)
Flat(runs) == IF runs = <<>> THEN <<>> ELSE Head(runs)[1] \o Flat(Tail(runs))

Count(t, c) == Cardinality({i \in 1..Len(t) : t[i] = c})

\* C8: every newline that is not escaped by a backslash becomes exactly one
\* space and survives in no run as a newline.
C8_NewlineBecomesSpace ==
    Parsed =>
        /\ Count(Flat(render_slices), "\n")
             = Cardinality({i \in 1..Len(text) : text[i] = "\n" /\ Escaped(text, i)})
        /\ Count(Flat(render_slices), " ")
             = Cardinality({i \in 1..Len(text) : text[i] = "\n" /\ ~Escaped(text, i)})

\* C9: a backslash is never emitted itself and the character it escapes
\* appears verbatim as the first character of a run.
C9_BackslashEscapes ==
    Parsed =>
        /\ Count(Flat(render_slices), "\\")
             = Cardinality({i \in 1..Len(text) : text[i] = "\\" /\ Escaped(text, i)})
        /\ \A i \in 1..Len(text) :
              Escaped(text, i) =>
                  \E k \in 1..Len(render_slices) : render_slices[k][1][1] = text[i]

\* C10: an input that ends with an unmatched backslash scans to the same run
\* list as the input without that backslash.
C10_TrailingBackslashDropped ==
    (Parsed /\ Len(text) > 0 /\ text[Len(text)] = "\\" /\ ~Escaped(text, Len(text)))
        => render_slices = ParagraphNew(SubSeq(text, 1, Len(text) - 1))

(* ------------------------- adjacent delimiters ------------------------ *)
\* two delimiters that stay two delimiters when written side by side (two
\* single asterisks side by side are the bold delimiter)
AdjacentPairs == (Attrs \X Attrs) \ {<<ITALIC, ITALIC>>}

\* C11: two adjacent delimiters produce no run for the zero-length slice
\* between them and the run after them carries both toggles.
C11_AdjacentDelimiters ==
    pc = "parsed" =>
        \A xy \in AdjacentPairs : \A t \in Pieces :
            text = Delimiter(xy[1]) \o Delimiter(xy[2]) \o t
                => render_slices = << <<t, toggle(toggle({}, xy[1]), xy[2])>> >>

(* ======================= properties of Format ========================= *)
\* C12: the transition from a style to itself is empty, so render emits no
\* code between two consecutive runs of the same style.
C12_NoOpTransition ==
    [][/\ (pc = "format" /\ pc' = "codes" /\ fmt_self = fmt_previous) => codes' = <<>>
       /\ (pc = "render" /\ slice_idx <= Len(render_slices)
           /\ render_slices[slice_idx][2] = previous_format)
          => render' = render \o render_slices[slice_idx][1]]_vars

C12_Witness ==
    /\ pc = "render"
    /\ slice_idx = 3
    /\ render_slices[1][2] = render_slices[2][2]
    /\ render_slices[1][2] = {BOLD, STRIKETHROUGH}
    /\ render_slices[2][1] # <<>>
    /\ render = <<"ESC[1m", "ESC[9m">> \o render_slices[1][1] \o render_slices[2][1]

\* C13: transitions are invertible: the codes from A to B applied to A give
\* B, and the codes from B to A applied to that give A again.
C13_TransitionsInvertible ==
    pc = "codes" =>
        /\ Replay(codes, fmt_previous) = fmt_self
        /\ Replay(codes \o get_codes_for_format_change(fmt_previous, fmt_self), fmt_previous)
             = fmt_previous

C13_Witness ==
    /\ pc = "codes"
    /\ fmt_previous = {BOLD, ITALIC}
    /\ fmt_self = {ITALIC, STRIKETHROUGH}
    /\ codes = <<"ESC[22m", "ESC[9m">>

ExactlyFlips(before, after, attr) ==
    /\ (attr \in after) # (attr \in before)
    /\ \A other \in Attrs \ {attr} : (other \in after) = (other \in before)

\* C14: each toggle flips exactly its own attribute and leaves the other two
\* alone, and the same toggle applied again restores the state.
C14_ToggleFlipsOne ==
    [][/\ ToggleBold =>
            ExactlyFlips(fmt_self, fmt_self', BOLD) /\ toggle_bold(fmt_self') = fmt_self
       /\ ToggleItalic =>
            ExactlyFlips(fmt_self, fmt_self', ITALIC) /\ toggle_italic(fmt_self') = fmt_self
       /\ ToggleStrikethrough =>
            ExactlyFlips(fmt_self, fmt_self', STRIKETHROUGH)
            /\ toggle_strikethrough(fmt_self') = fmt_self]_vars

C14_Witness ==
    /\ pc = "format"
    /\ fmt_self = {BOLD, ITALIC, STRIKETHROUGH}

(* ----------------------------- totality ------------------------------- *)
\* C15: scanning never takes a slice out of range: while scanning
\* 0 <= slice start <= scan position <= input length, both on character
\* boundaries, and at the end the slice start is within the input; the scan
\* never panics.
C15_ScanIsTotal ==
    /\ pc # "panicked"
    /\ pc = "scan" =>
          /\ 0 <= current_slice_start
          /\ current_slice_start <= char_indices
          /\ char_indices <= Len(text)
          /\ IsCharBoundary(text, current_slice_start)
          /\ IsCharBoundary(text, char_indices)
    /\ Parsed => current_slice_start <= Len(text)

C15_Witness ==
    /\ pc = "parsed"
    /\ text = <<"*", "E", "e", "\\">>
    /\ current_slice_start = Len(text)
    /\ render_slices = << <<(<<"E", "e">>), {ITALIC}>> >>

(* ------------------------ shape of the output ------------------------- *)
IsCode(e) == \E a \in Attrs : e = StartCode(a) \/ e = EndCode(a)

RECURSIVE Alternates(_, _)
Alternates(out, active) ==
    IF out = <<>> THEN TRUE
    ELSE LET e == Head(out)
         IN  /\ \A a \in Attrs : e = StartCode(a) => a \notin active
             /\ \A a \in Attrs : e = EndCode(a) => a \in active
             /\ Alternates(Tail(out), ApplyElement(active, e))

\* C16: in the rendered output the start and end codes of each attribute
\* strictly alternate, beginning with a start code.
C16_CodesAlternate ==
    Alternates(render, {})

C16_Witness ==
    /\ pc = "rendered"
    /\ Count(render, StartCode(BOLD)) = 2
    /\ Count(render, EndCode(BOLD)) = 2
    /\ Count(render, StartCode(ITALIC)) = 1

OrdinaryOf(t) == SelectSeq(t, LAMBDA c : c \notin Markup \cup {" "})

\* C17: the run texts, concatenated, hold every input character other than
\* backslash, asterisk, tilde and newline exactly once and in input order.
C17_OrdinaryTextPreserved ==
    Parsed => OrdinaryOf(Flat(render_slices)) = OrdinaryOf(text)

C17_Witness ==
    /\ pc = "parsed"
    /\ text = <<"b", "*", "a", "\n">>
    /\ render_slices = << <<(<<"b">>), {}>>, <<(<<"a", " ">>), {ITALIC}>> >>

\* C19: in the render of a scanned paragraph every start code is followed
\* by at least one text character before the end code of its attribute.
C19_NoEmptyStyledRegion ==
    pc \in {"render", "rendered"} =>
        \A i \in 1..Len(render) : \A a \in Attrs :
            render[i] = StartCode(a) =>
                \A j \in (i + 1)..Len(render) :
                    render[j] = EndCode(a) =>
                        \E k \in (i + 1)..(j - 1) : ~IsCode(render[k])

C19_Witness ==
    /\ pc = "rendered"
    /\ text = <<"*", "*", "a", "*">>
    /\ render = <<"ESC[1m", "a", "ESC[22m">>

(* ---------------------------- documents ------------------------------- *)
\* the number of blank lines (two consecutive newlines) found left to right
\* without overlap, from 1-based position i on
RECURSIVE BlankLines(_, _)
BlankLines(t, i) ==
    IF i >= Len(t) THEN 0
    ELSE IF t[i] = "\n" /\ t[i + 1] = "\n" THEN 1 + BlankLines(t, i + 2)
    ELSE BlankLines(t, i + 1)

\* C18: parse builds one Paragraph per blank-line separated segment, each
\* scanned from the empty style, and in the rendered document the style
\* replayed from the codes is empty at every paragraph boundary.
C18_ParagraphsIndependent ==
    /\ pc \in {"doc_parsed", "doc_render", "doc_rendered"} =>
          /\ Len(elements) = BlankLines(text, 1) + 1
          /\ \A i \in 1..Len(elements) : elements[i] = ParagraphNew(Split(text)[i])
    /\ pc \in {"doc_render", "doc_rendered"} => Replay(output, {}) = {}

C18_Witness ==
    /\ pc = "doc_rendered"
    /\ text = <<"*", "a", "\n", "\n", "a">>
    /\ Len(elements) = 2
    /\ output = <<"ESC[3m", "a", "ESC[23m", "\n", "\n", "a", "\n", "\n">>

====
